---- MODULE Spec2Model ----
(***************************************************************************)
(* Model of update_channel.py: the RP calendar translator                  *)
(* (rp_from_compupro_url), the label formatter (compute_channel_name), the *)
(* two HTTP helpers with their retry loops and main().                     *)
(*                                                                         *)
(* Representation.                                                         *)
(*  - Real-time instants that the code holds as floats (now_ms,            *)
(*    elapsed_ms) are held in clock ticks, SubMs ticks to the millisecond, *)
(*    so that the int() truncations of the code are visible.  Quantities   *)
(*    the code holds as whole milliseconds are held in milliseconds.       *)
(*  - The float quotient elapsed_ms / month_ms is taken as exact: within   *)
(*    the instants explored its rounding error cannot reach the next       *)
(*    integer.                                                             *)
(*  - lastdateepoch is held as whole days since 1970-01-01 plus the        *)
(*    milliseconds into that day (the value is days * 86400000 + ms): the  *)
(*    code reads only the calendar year of it, and the value of the        *)
(*    embedded URL does not fit the integers of the model checker.         *)
(*  - Instants of the real clock (now, lastdatechange and the two          *)
(*    next_*_start_ms) are held as offsets from an origin, a whole number  *)
(*    of milliseconds since 1970: the code only subtracts one instant from *)
(*    another (line 66) or adds a duration to one (lines 77 and 79), so    *)
(*    that the origin cancels.  With the origin at 1757721600000 the       *)
(*    lastdatechange of the embedded URL is the offset 0.                  *)
(***************************************************************************)
EXTENDS Integers, Sequences, FiniteSets, TLC

None == "None"

-----------------------------------------------------------------------------
(* Bounds of the exploration *)

\* clock ticks per millisecond (resolution of now_ms_utc below one ms)
SubMs == 2
\* daysperyear values explored: -1 .. MaxDays, and a missing parameter
MaxDays == 2
\* months before and after the anchor at which instants are drawn
MaxMonths == 13
\* the same, for a configuration whose month is longer than MaxDays allows
WideMonths == 2

-----------------------------------------------------------------------------
(* CONFIG: lines 21-43 *)

MONTHS_PER_YEAR == 12
DEFAULT_DAYSPERYEAR == 7
RETRY_COUNT == 3
RETRY_BACKOFF_SEC == <<2, 6, 20>>
MONTH_NAMES ==
  <<"January", "February", "March", "April", "May", "June",
    "July", "August", "September", "October", "November", "December">>
ICON == "[calendar]"

-----------------------------------------------------------------------------
(* Python arithmetic *)

Abs(x) == IF x < 0 THEN -x ELSE x

\* math.floor(a / b) for b # 0
FloorDiv(a, b) == IF b > 0 THEN a \div b ELSE (-a) \div (-b)

\* division that rounds toward zero, as int(a / b) does, for b # 0
TruncDiv(a, b) ==
  IF (a >= 0) = (b > 0) THEN Abs(a) \div Abs(b) ELSE -(Abs(a) \div Abs(b))

\* int(x) of a float x held in ticks: truncation toward zero, in whole ms
PyInt(ticks) == IF ticks >= 0 THEN ticks \div SubMs ELSE -((-ticks) \div SubMs)

\* datetime.utcfromtimestamp(ms / 1000.0).year, from the whole days since
\* 1970-01-01 (proleptic Gregorian calendar)
YearOfDays(days) ==
  LET z == days + 719468
      era == z \div 146097
      doe == z - era * 146097
      yoe == (doe - doe \div 1460 + doe \div 36524 - doe \div 146096) \div 365
      doy == doe - (365 * yoe + yoe \div 4 - yoe \div 100)
      mp == (5 * doy + 2) \div 153
      m == IF mp < 10 THEN mp + 3 ELSE mp - 9
  IN  yoe + era * 400 + (IF m <= 2 THEN 1 ELSE 0)

-----------------------------------------------------------------------------
(* rp_from_compupro_url: qs is the parsed query string, now the value of   *)
(* now_ms_utc() in ticks                                                   *)

\* int(qs.get("daysperyear", ["7"])[0]); qs.daysperyear is the list of the
\* values of the parameter, empty when the URL does not carry it
daysperyear(qs) ==
  IF qs.daysperyear = <<>> THEN DEFAULT_DAYSPERYEAR ELSE qs.daysperyear[1]

\* (daysperyear * 24) / 12 is a true division; 12 divides daysperyear * 24
hours_per_month(qs) == (daysperyear(qs) * 24) \div MONTHS_PER_YEAR

\* a variant of month_ms that counts an hour as 60 seconds
month_ms_Minutes(qs) == hours_per_month(qs) * 60 * 1000

month_ms(qs) == hours_per_month(qs) * 3600 * 1000

anchor_real_ms(qs) == qs.lastdatechange

\* elapsed_ms, in ticks
elapsed_ms(qs, now) == now - anchor_real_ms(qs) * SubMs

\* elapsed_ms / month_ms raises ZeroDivisionError when month_ms = 0
RpRaises(qs) == month_ms(qs) = 0

\* a variant of total_months that rounds the quotient toward zero
total_months_Truncated(qs, now) ==
  TruncDiv(elapsed_ms(qs, now), month_ms(qs) * SubMs)

total_months(qs, now) == FloorDiv(elapsed_ms(qs, now), month_ms(qs) * SubMs)

\* a variant of years_elapsed that divides toward zero
years_elapsed_Truncated(qs, now) ==
  TruncDiv(total_months(qs, now), MONTHS_PER_YEAR)

years_elapsed(qs, now) == total_months(qs, now) \div MONTHS_PER_YEAR

anchor_rp_dt_year(qs) == YearOfDays(qs.lastdateepoch.days)

current_year(qs, now) == anchor_rp_dt_year(qs) + years_elapsed(qs, now)

\* a variant of current_month whose remainder takes the sign of the dividend
current_month_TruncRem(qs, now) ==
  (total_months(qs, now)
   - MONTHS_PER_YEAR * TruncDiv(total_months(qs, now), MONTHS_PER_YEAR)) + 1

current_month(qs, now) == (total_months(qs, now) % MONTHS_PER_YEAR) + 1

\* a variant of ms_into_month that counts whole seconds
ms_into_month_InSeconds(qs, now) ==
  PyInt(elapsed_ms(qs, now) - total_months(qs, now) * month_ms(qs) * SubMs)
    \div 1000

ms_into_month(qs, now) ==
  PyInt(elapsed_ms(qs, now) - total_months(qs, now) * month_ms(qs) * SubMs)

\* a variant of next_month_start_ms that gives the start of the current month
next_month_start_ms_Current(qs, now) ==
  anchor_real_ms(qs) + total_months(qs, now) * month_ms(qs)

\* int(anchor_real_ms + (total_months + 1) * month_ms): the argument is a
\* whole number of milliseconds, which int() leaves as it is
next_month_start_ms(qs, now) ==
  anchor_real_ms(qs) + (total_months(qs, now) + 1) * month_ms(qs)

\* a variant of months_until_year_end that leaves the current month out
months_until_year_end_OffByOne(qs, now) ==
  MONTHS_PER_YEAR - ((total_months(qs, now) % MONTHS_PER_YEAR) + 1)

months_until_year_end(qs, now) ==
  MONTHS_PER_YEAR - ((total_months(qs, now) % MONTHS_PER_YEAR) + 1) + 1

next_year_start_ms(qs, now) ==
  anchor_real_ms(qs)
  + (total_months(qs, now) + months_until_year_end(qs, now)) * month_ms(qs)

rp_from_compupro_url(qs, now) ==
  [ current_year |-> current_year(qs, now),
    current_month |-> current_month(qs, now),
    ms_into_month |-> ms_into_month(qs, now),
    month_ms |-> month_ms(qs),
    anchor_real_ms |-> anchor_real_ms(qs),
    anchor_rp_epoch_ms |-> qs.lastdateepoch,
    next_month_start_ms |-> next_month_start_ms(qs, now),
    next_year_start_ms |-> next_year_start_ms(qs, now) ]

\* the index compute_channel_name uses into MONTH_NAMES (0-based)
month_index(info) == (info.current_month - 1) % 12

\* a variant of FormatLabel that shows the milliseconds into the month too
FormatLabel_WithMs(info) ==
  ICON \o " " \o MONTH_NAMES[month_index(info) + 1] \o " "
       \o ToString(info.current_year) \o " " \o ToString(info.ms_into_month)

\* f"<icon> {month_name} {info['current_year']}"
FormatLabel(info) ==
  ICON \o " " \o MONTH_NAMES[month_index(info) + 1] \o " "
       \o ToString(info.current_year)

compute_channel_name(qs, now) ==
  LET info == rp_from_compupro_url(qs, now)
  IN  [new_name |-> FormatLabel(info), info |-> info]

-----------------------------------------------------------------------------
(* State *)

VARIABLES
  cfg,        \* parsed query string of COMPUPRO_URL
  token,      \* os.getenv("DISCORD_TOKEN"): None when unset or empty
  now,        \* the UTC clock, in ticks
  pc,         \* position of the process
  new_name,   \* main: the computed label
  info,       \* main: the snapshot returned with it
  attempt,    \* HTTP helper: attempt
  last_exc,   \* HTTP helper: last_exc
  data,       \* http_patch_json_with_retries: body_bytes, encoded once
  get_ret,    \* what http_get_with_retries returned or raised
  patch_ret,  \* what http_patch_json_with_retries returned or raised
  remote,     \* the channel's name on the remote service
  trace,      \* events of the current run, in order
  outcome,    \* how the current run ended
  exit_code,  \* exit status of the process, -1 while it runs
  hist,       \* the last rename a PATCH of the script was answered 2xx for
  prev,       \* translator harness: the previous call
  via         \* translator harness: how the current instant was chosen

vars == <<cfg, token, now, pc, new_name, info, attempt, last_exc, data,
          get_ret, patch_ret, remote, trace, outcome, exit_code, hist,
          prev, via>>

-----------------------------------------------------------------------------
(* Inputs *)

EpochValues ==
  { [days |-> -51499, ms |-> 0],          \* -4449513600000: 1829-01-01
    [days |-> -1, ms |-> 86399999] }      \* -1: 1969-12-31T23:59:59.999

\* the query of COMPUPRO_URL, lines 22-25, with the origin of the instants
\* at its lastdatechange
COMPUPRO_QS ==
  [ daysperyear |-> <<7>>,
    lastdatechange |-> 0,
    lastdateepoch |-> [days |-> -51499, ms |-> 0] ]

Configs ==
  [ daysperyear : {<<>>} \cup { <<d>> : d \in -1 .. MaxDays },
    lastdatechange : {0, 2500},
    lastdateepoch : EpochValues ] \cup {COMPUPRO_QS}

ValidConfig(qs) == daysperyear(qs) > 0

\* length in ticks of the month grid the instants are drawn on
GridMonth(qs) ==
  IF month_ms(qs) = 0 THEN 2 * 3600 * 1000 * SubMs
  ELSE Abs(month_ms(qs)) * SubMs

GridSpan(qs) == IF Abs(daysperyear(qs)) > MaxDays + 1 THEN WideMonths ELSE MaxMonths

GridOffsets(qs) ==
  { 0, 1, SubMs, GridMonth(qs) \div 2 + 1,
    GridMonth(qs) - SubMs, GridMonth(qs) - 1 }

Instants(qs) ==
  { anchor_real_ms(qs) * SubMs + k * GridMonth(qs) + off :
      k \in (-GridSpan(qs)) .. GridSpan(qs), off \in GridOffsets(qs) }

\* instants at which a run of the script starts: the middle of a month and
\* one second before its end, before the anchor, after it and in month 12
StartInstants(qs) ==
  { anchor_real_ms(qs) * SubMs + k * GridMonth(qs) + off :
      k \in (IF GridSpan(qs) = WideMonths THEN {-1, 0} ELSE {-1, 0, 11}),
      off \in { GridMonth(qs) \div 2 + 1, GridMonth(qs) - 1000 * SubMs } }

OtherName == "general"

\* the name a run started now would compute, None when the translator raises
LabelAt(qs, t) ==
  IF RpRaises(qs) THEN None ELSE compute_channel_name(qs, t).new_name

-----------------------------------------------------------------------------
(* The remote service *)

\* what urlopen does with one GET request
GetResponses ==
  { [k |-> "ok", status |-> 200, json |-> "object", blocked |-> FALSE],
    [k |-> "ok", status |-> 200, json |-> "array", blocked |-> FALSE],
    [k |-> "ok", status |-> 200, json |-> "invalid", blocked |-> FALSE],
    [k |-> "ok", status |-> 204, json |-> "object", blocked |-> FALSE],
    [k |-> "http_error", status |-> 403, json |-> "invalid", blocked |-> TRUE],
    [k |-> "http_error", status |-> 404, json |-> "object", blocked |-> FALSE],
    [k |-> "url_error", status |-> 0, json |-> "invalid", blocked |-> FALSE],
    [k |-> "other_error", status |-> 0, json |-> "invalid", blocked |-> FALSE] }

\* what urlopen does with one PATCH request; applied: the service renamed
\* the channel before the answer was produced or lost
PatchResponses ==
  { [k |-> "ok", status |-> 200, blocked |-> FALSE, applied |-> TRUE],
    [k |-> "http_error", status |-> 403, blocked |-> TRUE, applied |-> FALSE],
    [k |-> "http_error", status |-> 404, blocked |-> FALSE, applied |-> FALSE],
    [k |-> "url_error", status |-> 0, blocked |-> FALSE, applied |-> FALSE],
    [k |-> "url_error", status |-> 0, blocked |-> FALSE, applied |-> TRUE],
    [k |-> "other_error", status |-> 0, blocked |-> FALSE, applied |-> TRUE] }

NoRet == [kind |-> None, exc |-> None, status |-> 0, json |-> None, name |-> None]

\* info before compute_channel_name has returned
NoInfo ==
  [ current_year |-> 0, current_month |-> 0, ms_into_month |-> 0,
    month_ms |-> 0, anchor_real_ms |-> 0,
    anchor_rp_epoch_ms |-> [days |-> 0, ms |-> 0],
    next_month_start_ms |-> 0, next_year_start_ms |-> 0 ]

\* a request without a body
NoBody == [name |-> None]

Running == 0 - 1

\* no rename of the script stands: none was answered 2xx, or somebody else
\* has renamed the channel since
NoHist == [label |-> None, month |-> 0, prior |-> FALSE]

-----------------------------------------------------------------------------
(* Events of a run *)

EvCompute(t) == [ev |-> "compute", method |-> None, body |-> NoBody, sec |-> 0, at |-> t]
EvRequest(m, b, t) == [ev |-> "request", method |-> m, body |-> b, sec |-> 0, at |-> t]
EvCall(m, t) == [ev |-> "call", method |-> m, body |-> NoBody, sec |-> 0, at |-> t]
EvSleep(w, t) == [ev |-> "sleep", method |-> None, body |-> NoBody, sec |-> w, at |-> t]

\* RETRY_BACKOFF_SEC[min(attempt, len(RETRY_BACKOFF_SEC)-1)], attempt 0-based
Backoff(a) ==
  RETRY_BACKOFF_SEC[(IF a < Len(RETRY_BACKOFF_SEC) - 1
                     THEN a ELSE Len(RETRY_BACKOFF_SEC) - 1) + 1]

\* time.sleep(wait), in ticks
SleepTicks(w) == w * 1000 * SubMs

\* a variant of NextAttempt that leaves the counter where it is
NextAttempt_Same(a) == a

\* lines 133, 143, 172 and 181: attempt += 1
NextAttempt(a) == a + 1

\* a variant of ShouldRetry that retries on the last attempt as well
ShouldRetry_Inclusive(r, a) ==
  /\ a <= RETRY_COUNT
  /\ \/ r.k = "url_error"
     \/ r.k = "http_error" /\ r.blocked

\* a variant of ShouldRetry that retries every HTTPError
ShouldRetry_AnyHttpError(r, a) ==
  /\ a < RETRY_COUNT
  /\ \/ r.k = "url_error"
     \/ r.k = "http_error"

\* a variant of ShouldRetry that does not look at the attempt counter
ShouldRetry_Unbounded(r, a) ==
  \/ r.k = "url_error"
  \/ r.k = "http_error" /\ r.blocked

\* the retry test of both helpers, lines 129, 140, 169 and 178: a 1010 block
\* or a URLError, while attempt < retries
ShouldRetry(r, a) ==
  /\ a < RETRY_COUNT
  /\ \/ r.k = "url_error"
     \/ r.k = "http_error" /\ r.blocked

\* a variant of StatusOk that takes every 2xx status for a success
StatusOk_Any2xx(status) == status >= 200 /\ status <= 299

\* line 223: if status != 200
StatusOk(status) == status = 200

\* a variant of NameUpToDate that never finds the name up to date
NameUpToDate_Never(current_name, label) == FALSE

\* a variant of NameUpToDate that takes a missing name for an up to date one
NameUpToDate_OrAbsent(current_name, label) ==
  current_name = label \/ current_name = None

\* line 236: if current_name == new_name
NameUpToDate(current_name, label) == current_name = label

\* a variant of PatchData that sends the month name without the year
PatchData_NoYear(label) == [name |-> "month"]

\* line 242: the data of the PATCH, {"name": new_name}
PatchData(label) == [name |-> label]

Raised(e) == [kind |-> "raise", exc |-> e, status |-> 0, json |-> None, name |-> None]
Returned(st, js, nm) ==
  [kind |-> "return", exc |-> None, status |-> st, json |-> js, name |-> nm]

-----------------------------------------------------------------------------
(* Module level, lines 27-30 *)

\* a variant of TokenMissing that lets every token pass
TokenMissing_Never(tok) == FALSE

\* line 29: if not TOKEN, true of an unset and of an empty DISCORD_TOKEN
TokenMissing(tok) == tok = None

Import ==
  /\ pc = "import"
  /\ IF TokenMissing(token)
     THEN /\ pc' = "exit"
          /\ exit_code' = 1
          /\ outcome' = "SystemExit"
     ELSE /\ pc' = "main"
          /\ UNCHANGED <<exit_code, outcome>>
  /\ UNCHANGED <<cfg, token, now, new_name, info, attempt, last_exc, data,
                 get_ret, patch_ret, remote, trace, hist, prev, via>>

(* main, lines 196-205: the label is computed, then the GET helper entered *)
MainCompute ==
  /\ pc = "main"
  /\ IF RpRaises(cfg)
     THEN /\ pc' = "exit"
          /\ exit_code' = 1
          /\ outcome' = "ZeroDivisionError"
          /\ trace' = Append(trace, EvCompute(now))
          /\ UNCHANGED <<new_name, info>>
     ELSE /\ new_name' = compute_channel_name(cfg, now).new_name
          /\ info' = compute_channel_name(cfg, now).info
          /\ trace' = Append(Append(trace, EvCompute(now)), EvCall("GET", now))
          /\ pc' = "get"
          /\ UNCHANGED <<exit_code, outcome>>
  /\ attempt' = 0
  /\ last_exc' = None
  /\ UNCHANGED <<cfg, token, now, data, get_ret, patch_ret, remote, hist, prev, via>>

\* what follows the loop of a helper, lines 147-149 and 185-187
AfterLoop == IF last_exc # None THEN Raised(last_exc) ELSE Raised("RuntimeError")

(* http_get_with_retries, lines 112-149: one turn of the loop, with the    *)
(* answer r of the service to the request.  The clock of the model is      *)
(* advanced by time.sleep alone: nothing reads it between two sleeps.      *)
GetStep(r) ==
  /\ pc = "get"
  /\ IF attempt <= RETRY_COUNT
     THEN LET sent == Append(trace, EvRequest("GET", NoBody, now))
          IN  /\ last_exc' = IF r.k = "url_error" THEN "URLError" ELSE last_exc
              /\ IF ShouldRetry(r, attempt)
                 THEN /\ trace' = Append(sent, EvSleep(Backoff(attempt), now))
                      /\ now' = now + SleepTicks(Backoff(attempt))
                      /\ attempt' = NextAttempt(attempt)
                      /\ UNCHANGED <<pc, get_ret>>
                 ELSE /\ trace' = sent
                      /\ pc' = "got"
                      /\ get_ret' =
                           CASE r.k = "ok" ->
                                  Returned(r.status, r.json,
                                           IF r.json = "object" THEN remote ELSE None)
                             [] r.k = "http_error" -> Raised("HTTPError")
                             [] r.k = "url_error" -> Raised("URLError")
                             [] OTHER -> Raised("Exception")
                      /\ UNCHANGED <<now, attempt>>
     ELSE /\ get_ret' = AfterLoop
          /\ pc' = "got"
          /\ UNCHANGED <<trace, now, attempt, last_exc>>
  /\ UNCHANGED <<cfg, token, new_name, info, data, patch_ret, remote, outcome,
                 exit_code, hist, prev, via>>

(* main, lines 206-242: the answer of the GET is examined, and the PATCH   *)
(* helper entered when the name differs                                    *)
MainAfterGet ==
  /\ pc = "got"
  /\ LET end(o, c) == /\ pc' = "exit"
                      /\ outcome' = o
                      /\ exit_code' = c
                      /\ UNCHANGED <<data, attempt, last_exc, trace>>
     IN  CASE get_ret.kind = "raise" /\ get_ret.exc = "HTTPError" ->
                end("GET channel HTTPError", 0)
           [] get_ret.kind = "raise" /\ get_ret.exc = "URLError" ->
                end("GET channel URLError", 0)
           [] get_ret.kind = "raise" -> end("GET channel unexpected error", 0)
           [] ~StatusOk(get_ret.status) -> end("GET channel returned non-200", 0)
           [] get_ret.json = "invalid" -> end("Failed to parse channel JSON", 0)
           \* info_json.get on a JSON value that is no object: AttributeError
           [] get_ret.json # "object" -> end("AttributeError", 1)
           [] NameUpToDate(get_ret.name, new_name) ->
                end("Channel name already up to date", 0)
           [] OTHER -> /\ pc' = "patch"
                       /\ data' = PatchData(new_name)
                       /\ trace' = Append(trace, EvCall("PATCH", now))
                       /\ attempt' = 0
                       /\ last_exc' = None
                       /\ UNCHANGED <<outcome, exit_code>>
  /\ UNCHANGED <<cfg, token, now, new_name, info, get_ret, patch_ret, remote,
                 hist, prev, via>>

(* http_patch_json_with_retries, lines 152-187: one turn of the loop *)
PatchStep(r) ==
  /\ pc = "patch"
  /\ IF attempt <= RETRY_COUNT
     THEN LET sent == Append(trace, EvRequest("PATCH", data, now))
          IN  /\ last_exc' = IF r.k = "url_error" THEN "URLError" ELSE last_exc
              /\ remote' = IF r.applied THEN data.name ELSE remote
              /\ hist' = IF r.k = "ok"
                          THEN [label |-> data.name,
                                month |-> total_months(cfg, trace[1].at),
                                prior |-> FALSE]
                          ELSE hist
              /\ IF ShouldRetry(r, attempt)
                 THEN /\ trace' = Append(sent, EvSleep(Backoff(attempt), now))
                      /\ now' = now + SleepTicks(Backoff(attempt))
                      /\ attempt' = NextAttempt(attempt)
                      /\ UNCHANGED <<pc, patch_ret>>
                 ELSE /\ trace' = sent
                      /\ pc' = "patched"
                      /\ patch_ret' =
                           CASE r.k = "ok" -> Returned(r.status, "object", data.name)
                             [] r.k = "http_error" -> Raised("HTTPError")
                             [] r.k = "url_error" -> Raised("URLError")
                             [] OTHER -> Raised("Exception")
                      /\ UNCHANGED <<now, attempt>>
     ELSE /\ patch_ret' = AfterLoop
          /\ pc' = "patched"
          /\ UNCHANGED <<trace, now, attempt, last_exc, remote, hist>>
  /\ UNCHANGED <<cfg, token, new_name, info, data, get_ret, outcome, exit_code,
                 prev, via>>

\* a variant of MainAfterPatch whose exit status tells a failed write
MainAfterPatch_FailStatus ==
  /\ pc = "patched"
  /\ pc' = "exit"
  /\ exit_code' = IF patch_ret.kind = "return" THEN 0 ELSE 1
  /\ outcome' = CASE patch_ret.kind = "return" -> "PATCH returned"
                  [] patch_ret.exc = "HTTPError" -> "PATCH HTTPError"
                  [] patch_ret.exc = "URLError" -> "PATCH URLError"
                  [] OTHER -> "PATCH unexpected error"
  /\ UNCHANGED <<cfg, token, now, new_name, info, attempt, last_exc, data,
                 get_ret, patch_ret, remote, trace, hist, prev, via>>

(* main, lines 243-257 *)
MainAfterPatch ==
  /\ pc = "patched"
  /\ pc' = "exit"
  /\ exit_code' = 0
  /\ outcome' = CASE patch_ret.kind = "return" -> "PATCH returned"
                  [] patch_ret.exc = "HTTPError" -> "PATCH HTTPError"
                  [] patch_ret.exc = "URLError" -> "PATCH URLError"
                  [] OTHER -> "PATCH unexpected error"
  /\ UNCHANGED <<cfg, token, now, new_name, info, attempt, last_exc, data,
                 get_ret, patch_ret, remote, trace, hist, prev, via>>

(* The external trigger starts the script again, at once or later *)
NewRun ==
  /\ pc = "exit"
  /\ \E t \in StartInstants(cfg) : t >= now /\ now' = t
  /\ pc' = "import"
  /\ new_name' = None
  /\ info' = NoInfo
  /\ attempt' = 0
  /\ last_exc' = None
  /\ data' = NoBody
  /\ get_ret' = NoRet
  /\ patch_ret' = NoRet
  /\ trace' = <<>>
  /\ outcome' = None
  /\ exit_code' = Running
  /\ hist' = IF hist = NoHist THEN NoHist ELSE [hist EXCEPT !.prior = TRUE]
  /\ UNCHANGED <<cfg, token, remote, prev, via>>

(* Somebody else renames the channel *)
ExternalRename ==
  /\ pc \in {"import", "main", "get", "got", "patch", "patched", "exit"}
  /\ remote # OtherName
  /\ remote' = OtherName
  /\ hist' = NoHist
  /\ UNCHANGED <<cfg, token, now, pc, new_name, info, attempt, last_exc,
                 data, get_ret, patch_ret, trace, outcome, exit_code, prev, via>>

NoPrev == [now |-> 0, total_months |-> 0, info |-> NoInfo]

MainConfigs ==
  { c \in Configs : c.lastdatechange = 0 /\ c.lastdateepoch.days = -51499 }

Init ==
  /\ cfg \in MainConfigs
  /\ token \in {None, "secret"}
  /\ now \in StartInstants(cfg)
  /\ pc = "import"
  /\ new_name = None
  /\ info = NoInfo
  /\ attempt = 0
  /\ last_exc = None
  /\ data = NoBody
  /\ get_ret = NoRet
  /\ patch_ret = NoRet
  /\ remote \in {None, OtherName} \cup (IF RpRaises(cfg) THEN {} ELSE {LabelAt(cfg, now)})
  /\ trace = <<>>
  /\ outcome = None
  /\ exit_code = Running
  /\ hist = NoHist
  /\ prev = NoPrev
  /\ via = "run"

Next ==
  \/ Import
  \/ MainCompute
  \/ \E r \in GetResponses : GetStep(r)
  \/ MainAfterGet
  \/ \E r \in PatchResponses : PatchStep(r)
  \/ MainAfterPatch
  \/ NewRun
  \/ ExternalRename

Spec == Init /\ [][Next]_vars

\* a step of the run under way
RunStep ==
  \/ Import
  \/ MainCompute
  \/ \E r \in GetResponses : GetStep(r)
  \/ MainAfterGet
  \/ \E r \in PatchResponses : PatchStep(r)
  \/ MainAfterPatch

(* The interpreter goes on to the next statement of a run it has begun:    *)
(* each urlopen returns or raises within its timeout of 15 seconds (lines  *)
(* 119 and 163) and each time.sleep ends.  Nothing is assumed of the       *)
(* trigger of the next run or of the others who rename the channel.        *)
LiveSpec == Init /\ [][Next]_vars /\ WF_vars(RunStep)

-----------------------------------------------------------------------------
(* The translator on its own: compute_channel_name is applied at an        *)
(* instant drawn from Instants(cfg), then once more at an instant derived  *)
(* from the first snapshot                                                 *)

InitRP ==
  /\ cfg \in Configs
  /\ token = "secret"
  /\ now \in Instants(cfg)
  /\ pc = "rp"
  /\ new_name = None
  /\ info = NoInfo
  /\ attempt = 0
  /\ last_exc = None
  /\ data = NoBody
  /\ get_ret = NoRet
  /\ patch_ret = NoRet
  /\ remote = None
  /\ trace = <<>>
  /\ outcome = None
  /\ exit_code = Running
  /\ hist = NoHist
  /\ prev = NoPrev
  /\ via = "input"

\* compute_channel_name() at the current instant
RpCompute ==
  /\ pc = "rp"
  /\ new_name = None
  /\ outcome = None
  /\ IF RpRaises(cfg)
     THEN /\ outcome' = "ZeroDivisionError"
          /\ UNCHANGED <<new_name, info>>
     ELSE /\ new_name' = compute_channel_name(cfg, now).new_name
          /\ info' = compute_channel_name(cfg, now).info
          /\ UNCHANGED outcome
  /\ UNCHANGED <<cfg, token, now, pc, attempt, last_exc, data, get_ret,
                 patch_ret, remote, trace, exit_code, hist, prev, via>>

\* the clock is moved to t and the snapshot is kept as the previous one
RpMove(t, how) ==
  /\ pc = "rp"
  /\ via = "input"
  /\ new_name # None
  /\ now' = t
  /\ via' = how
  /\ prev' = [now |-> now, total_months |-> total_months(cfg, now), info |-> info]
  /\ new_name' = None
  /\ info' = NoInfo
  /\ UNCHANGED <<cfg, token, pc, attempt, last_exc, data, get_ret, patch_ret,
                 remote, trace, outcome, exit_code, hist>>

RpAtNextMonth == RpMove(info.next_month_start_ms * SubMs, "next_month")

RpAtNextYear == RpMove(info.next_year_start_ms * SubMs, "next_year")

RpBackMonth == RpMove(now - info.month_ms * SubMs, "back_month")

RpLater ==
  \E t \in Instants(cfg) :
    /\ now < t
    /\ t <= now + GridMonth(cfg)
    /\ RpMove(t, "later")

NextRP ==
  \/ RpCompute
  \/ RpAtNextMonth
  \/ RpAtNextYear
  \/ RpBackMonth
  \/ RpLater

SpecRP == InitRP /\ [][NextRP]_vars

-----------------------------------------------------------------------------
(* Properties of a run (specification Spec) *)

Events(e, m) ==
  { i \in 1 .. Len(trace) : trace[i].ev = e /\ trace[i].method = m }

PatchRequests == Cardinality(Events("request", "PATCH"))
GetRequests == Cardinality(Events("request", "GET"))
PatchCalls == Cardinality(Events("call", "PATCH"))
ComputeCalls == Cardinality(Events("compute", None))

\* the GET returned status 200 and a body json.loads accepts
GetSucceeded ==
  /\ get_ret.kind = "return"
  /\ get_ret.status = 200
  /\ get_ret.json # "invalid"

\* the GET raised, or returned another status, or a body json.loads rejects
GetFailed ==
  \/ get_ret.kind = "raise"
  \/ /\ get_ret.kind = "return"
     /\ get_ret.status # 200 \/ get_ret.json = "invalid"

\* C1: when the GET succeeded (status 200, parseable JSON) and the fetched
\* name equals the computed label, the run sends no PATCH request and never
\* enters the PATCH helper.
C1_NoWriteWhenUpToDate ==
  (GetSucceeded /\ get_ret.name = new_name)
    => PatchRequests = 0 /\ PatchCalls = 0 /\ pc \in {"got", "exit"}

\* a finished run whose GET was blocked once, then found the name up to date
C1_Witness ==
  /\ pc = "exit"
  /\ GetSucceeded
  /\ get_ret.name = new_name
  /\ GetRequests >= 2
  /\ outcome = "Channel name already up to date"

\* C2: a failed read (network error, HTTP error, status other than 200,
\* body that is no JSON) ends the run with no PATCH request sent.
C2_FailedReadNoWrite ==
  GetFailed => PatchRequests = 0 /\ PatchCalls = 0 /\ pc \in {"got", "exit"}

\* a finished run whose GET returned a 2xx status other than 200 while the
\* channel's name differed from the label
C2_Witness ==
  /\ pc = "exit"
  /\ get_ret.kind = "return"
  /\ get_ret.status # 200
  /\ get_ret.json = "object"
  /\ get_ret.name # new_name
  /\ exit_code = 0

\* every PATCH request of the trace comes after every GET request, after
\* the entry of the PATCH helper, and after the GET helper has returned
PatchAfterGet ==
  /\ \A i \in Events("request", "PATCH") :
       /\ \A j \in Events("request", "GET") : j < i
       /\ \A j \in Events("call", "PATCH") : j < i
  /\ \A i \in Events("call", "PATCH") :
       \A j \in Events("request", "GET") : j < i
  /\ PatchRequests > 0 => PatchCalls = 1 /\ get_ret.kind = "return"

\* C3 as stated: the PATCH helper is called (once) exactly when the GET
\* returned status 200 with parseable JSON whose name is absent or differs
\* from the label, and no PATCH precedes the completion of the GET.
C3_AsStated ==
  /\ pc = "exit" =>
       (PatchCalls = 1 <=> (GetSucceeded /\ get_ret.name # new_name))
  /\ PatchCalls <= 1
  /\ PatchAfterGet

\* C3 amended: the PATCH helper is called (once) exactly when the GET
\* returned status 200 with a parseable JSON object whose name is absent or
\* differs from the label; a body that parses to another JSON value ends
\* the run without a PATCH.  No PATCH precedes the completion of the GET.
C3_WriteIffObjectDiffers ==
  /\ pc \in {"patch", "patched", "exit"} =>
       (PatchCalls = 1 <=>
          (GetSucceeded /\ get_ret.json = "object" /\ get_ret.name # new_name))
  /\ (pc = "exit" /\ GetSucceeded /\ get_ret.json # "object") =>
       PatchRequests = 0 /\ outcome = "AttributeError"
  /\ PatchCalls <= 1
  /\ PatchAfterGet

\* a finished run that read a JSON object without a name, after a retried
\* GET, and sent more than one PATCH request
C3_Witness ==
  /\ pc = "exit"
  /\ GetSucceeded
  /\ get_ret.json = "object"
  /\ get_ret.name = None
  /\ GetRequests >= 2
  /\ PatchCalls = 1
  /\ PatchRequests >= 2

\* C4: compute_channel_name is called exactly once in a run that reaches
\* main, before any request; the label is not computed again, and every
\* PATCH request of the run carries {"name": label} with the label computed
\* at the start, whatever the clock says when it is sent.
C4_LabelComputedOnce ==
  /\ ComputeCalls <= 1
  /\ (pc \in {"get", "got", "patch", "patched"}
      \/ (pc = "exit" /\ outcome # "SystemExit")) => ComputeCalls = 1
  /\ (GetRequests + PatchRequests > 0) =>
       /\ trace[1].ev = "compute"
       /\ new_name = LabelAt(cfg, trace[1].at)
  /\ \A i \in Events("request", "PATCH") :
       trace[i].body = [name |-> new_name]

\* a PATCH request sent again after backoff once the clock has passed the
\* month boundary: the label of that instant is no longer the one sent
C4_Witness ==
  /\ pc \in {"patch", "patched", "exit"}
  /\ \E i \in Events("request", "PATCH") :
       /\ \E j \in Events("sleep", None) : j < i
       /\ LabelAt(cfg, trace[i].at) # new_name
       /\ trace[i].body = [name |-> new_name]

-----------------------------------------------------------------------------
(* Properties of the translator (specification SpecRP) *)

\* compute_channel_name has returned at the current instant
Computed == pc = "rp" /\ new_name # None

\* the calendar position as a count of months
Position(i) == i.current_year * 12 + (i.current_month - 1)

\* C5: at now = next_month_start_ms of the snapshot taken at now0, for a
\* valid configuration and any now0, total_months is 1 greater than at now0
\* and ms_into_month is 0.
C5_MonthRollover ==
  (Computed /\ via = "next_month" /\ ValidConfig(cfg)) =>
    /\ now = prev.info.next_month_start_ms * SubMs
    /\ total_months(cfg, now) = prev.total_months + 1
    /\ info.ms_into_month = 0

\* the rollover from an instant before the anchor, part of the way into a
\* month
C5_Witness ==
  /\ Computed
  /\ via = "next_month"
  /\ ValidConfig(cfg)
  /\ prev.total_months < -1
  /\ prev.info.ms_into_month > 0
  /\ prev.now % SubMs # 0

\* C6: at now = next_year_start_ms of the snapshot taken at now0, for a
\* valid configuration and any now0, current_year is 1 greater than at now0
\* and current_month is 1; every instant from now0 up to next_year_start_ms
\* (the last tick before it included) has the year of now0.
C6_YearRollover ==
  /\ (Computed /\ via = "next_year" /\ ValidConfig(cfg)) =>
       /\ now = prev.info.next_year_start_ms * SubMs
       /\ info.current_year = prev.info.current_year + 1
       /\ info.current_month = 1
  /\ (Computed /\ via = "input" /\ ValidConfig(cfg)) =>
       \A t \in Instants(cfg) \cup {info.next_year_start_ms * SubMs - 1} :
         (now <= t /\ t < info.next_year_start_ms * SubMs) =>
           current_year(cfg, t) = info.current_year

\* the rollover from the middle of a year before the anchor
C6_Witness ==
  /\ Computed
  /\ via = "next_year"
  /\ ValidConfig(cfg)
  /\ prev.total_months < 0
  /\ prev.info.current_month \in 2 .. 11
  /\ prev.info.ms_into_month > 0

\* C7: for every instant, before the anchor too, the calendar position is
\* linear in the floored month count: current_year * 12 + (current_month - 1)
\* = anchor year * 12 + total_months.  One month duration earlier the
\* position is one month less, and the month that ends at the anchor is
\* month 12 of the year before the anchor year.
C7_PreAnchorContinuity ==
  /\ (Computed /\ ValidConfig(cfg)) =>
       Position(info) = anchor_rp_dt_year(cfg) * 12 + total_months(cfg, now)
  /\ (Computed /\ via = "back_month" /\ ValidConfig(cfg)) =>
       /\ now = prev.now - info.month_ms * SubMs
       /\ Position(info) = Position(prev.info) - 1
  /\ (Computed /\ ValidConfig(cfg)
      /\ elapsed_ms(cfg, now) < 0
      /\ elapsed_ms(cfg, now) >= -(month_ms(cfg) * SubMs)) =>
       /\ info.current_month = 12
       /\ info.current_year = anchor_rp_dt_year(cfg) - 1

\* one month back from the first month after the anchor: December of the
\* year before
C7_Witness ==
  /\ Computed
  /\ via = "back_month"
  /\ ValidConfig(cfg)
  /\ prev.total_months = 0
  /\ prev.info.current_month = 1
  /\ info.current_month = 12
  /\ info.current_year = prev.info.current_year - 1

\* two instants prev.now < now with the same total_months
SameMonthLater ==
  /\ Computed
  /\ via = "later"
  /\ ValidConfig(cfg)
  /\ prev.now < now
  /\ total_months(cfg, now) = prev.total_months

\* C8 as stated: for two instants now1 < now2 of the same month,
\* current_month and current_year are equal and ms_into_month at now2
\* exceeds ms_into_month at now1 by exactly now2 - now1.
C8_AsStated ==
  SameMonthLater =>
    /\ info.current_month = prev.info.current_month
    /\ info.current_year = prev.info.current_year
    /\ (info.ms_into_month - prev.info.ms_into_month) * SubMs = now - prev.now

\* C8 amended: for two instants now1 < now2 of the same month,
\* current_month and current_year are equal; ms_into_month, which int()
\* cuts to whole milliseconds, does not decrease and its increase differs
\* from now2 - now1 by less than one millisecond; the increase is exactly
\* now2 - now1 when now2 - now1 is a whole number of milliseconds.
C8_SameMonth ==
  SameMonthLater =>
    /\ info.current_month = prev.info.current_month
    /\ info.current_year = prev.info.current_year
    /\ info.ms_into_month >= prev.info.ms_into_month
    /\ Abs((info.ms_into_month - prev.info.ms_into_month) * SubMs
           - (now - prev.now)) < SubMs
    /\ (now - prev.now) % SubMs = 0 =>
         (info.ms_into_month - prev.info.ms_into_month) * SubMs = now - prev.now

\* two instants of one month before the anchor, a whole number of
\* milliseconds apart, neither on a whole millisecond
C8_Witness ==
  /\ SameMonthLater
  /\ prev.total_months < 0
  /\ prev.now % SubMs # 0
  /\ (now - prev.now) % SubMs = 0
  /\ info.ms_into_month > prev.info.ms_into_month

\* C9: for a valid configuration and every instant, before the anchor too,
\* 0 <= ms_into_month < month_ms.
C9_MsIntoMonthRange ==
  (Computed /\ ValidConfig(cfg)) =>
    /\ 0 <= info.ms_into_month
    /\ info.ms_into_month < info.month_ms

\* the last millisecond of a month before the anchor
C9_Witness ==
  /\ Computed
  /\ ValidConfig(cfg)
  /\ elapsed_ms(cfg, now) < 0
  /\ info.ms_into_month = info.month_ms - 1

\* C10: for a valid configuration and every instant, with a negative
\* total_months too, current_month is in 1 .. 12, so that the index
\* compute_channel_name uses into MONTH_NAMES is current_month - 1, in
\* 0 .. 11, and the label carries the name of that month.
C10_MonthInRange ==
  (Computed /\ ValidConfig(cfg)) =>
    /\ info.current_month \in 1 .. 12
    /\ month_index(info) = info.current_month - 1
    /\ month_index(info) \in 0 .. 11
    /\ new_name = ICON \o " " \o MONTH_NAMES[info.current_month] \o " "
                       \o ToString(info.current_year)

\* an instant more than a year before the anchor, in a month other than
\* the first and the last
C10_Witness ==
  /\ Computed
  /\ ValidConfig(cfg)
  /\ total_months(cfg, now) < -12
  /\ info.current_month \in 2 .. 11

-----------------------------------------------------------------------------
(* Configuration and startup *)

\* the daysperyear parameter is given and is zero or negative
NonPositiveDays == cfg.daysperyear # <<>> /\ cfg.daysperyear[1] <= 0

\* C11: a daysperyear of zero or below, and a missing daysperyear, make the
\* translator fail fast: it produces an error, no snapshot and no label, and
\* no request is sent; a missing daysperyear is never replaced by a default.
C11_FailFast ==
  (NonPositiveDays \/ cfg.daysperyear = <<>>) =>
     /\ new_name = None
     /\ info = NoInfo
     /\ GetRequests = 0
     /\ PatchRequests = 0
     /\ ComputeCalls > 0 => pc = "exit" /\ exit_code # 0

\* C12: when DISCORD_TOKEN is unset or empty the process aborts at startup
\* with a fatal error: the translator is never run and no GET or PATCH
\* request is ever sent.
C12_NoTokenAbortsAtStartup ==
  token = None =>
     /\ pc \in {"import", "exit"}
     /\ trace = <<>>
     /\ new_name = None
     /\ info = NoInfo
     /\ pc = "exit" => outcome = "SystemExit" /\ exit_code # 0

\* the process has aborted for want of a token
C12_Witness ==
  token = None /\ pc = "exit" /\ outcome = "SystemExit" /\ exit_code = 1

-----------------------------------------------------------------------------
(* Exit status *)

\* the run ended on an exception that nothing catches
Uncaught == outcome \in {"SystemExit", "ZeroDivisionError", "AttributeError"}

\* a failure that main catches, logs and returns from
LoggedFailure ==
  \/ GetFailed
  \/ patch_ret.kind = "raise"

\* C13 as stated: every run exits with status 0, whatever failed, the
\* missing token and the configuration error included.
C13_AsStated == pc = "exit" => exit_code = 0

\* C13: a run exits with status 0 on every failure main handles (read error,
\* non-200 read, unparseable body, write error, exhausted retries) and on
\* success; it exits with status 1 exactly when it ends on an exception that
\* nothing catches: the SystemExit of a missing token, the ZeroDivisionError
\* of daysperyear = 0, the AttributeError of a body that is no JSON object.
C13_ExitStatus ==
  pc = "exit" =>
     /\ exit_code = IF Uncaught THEN 1 ELSE 0
     /\ LoggedFailure => exit_code = 0 /\ ~Uncaught
     /\ token = None => exit_code = 1

\* a write that failed on every attempt, logged, with exit status 0
C13_Witness ==
  /\ pc = "exit"
  /\ exit_code = 0
  /\ outcome = "PATCH URLError"
  /\ PatchRequests = RETRY_COUNT + 1

-----------------------------------------------------------------------------
(* The retry loops *)

Methods == {"GET", "PATCH"}

\* the sleeps of the helper of method m: each follows a request of m
SleepsOf(m) ==
  { i \in 2 .. Len(trace) :
      /\ trace[i].ev = "sleep"
      /\ trace[i - 1].ev = "request"
      /\ trace[i - 1].method = m }

RequestsBefore(m, i) == Cardinality({ j \in Events("request", m) : j < i })
SleepsUpTo(m, i) == Cardinality({ j \in SleepsOf(m) : j <= i })

\* the answers that are a 1010 block
BlockedGet == { r \in GetResponses : r.k = "http_error" /\ r.blocked }
BlockedPatch == { r \in PatchResponses : r.k = "http_error" /\ r.blocked }

\* the k-th sleep of a call lasts RETRY_BACKOFF_SEC[k], comes after the k-th
\* request and before the next one, which is sent when the sleep is over
C14_Schedule ==
  /\ \A k \in 1 .. Len(RETRY_BACKOFF_SEC) - 1 :
       RETRY_BACKOFF_SEC[k] < RETRY_BACKOFF_SEC[k + 1]
  /\ \A i \in 1 .. Len(trace) :
       trace[i].ev = "sleep" => \E m \in Methods : i \in SleepsOf(m)
  /\ \A m \in Methods :
       /\ \A i \in SleepsOf(m) :
            LET k == SleepsUpTo(m, i)
            IN  /\ k <= RETRY_COUNT
                /\ trace[i].sec = RETRY_BACKOFF_SEC[k]
                /\ RequestsBefore(m, i) = k
                /\ i < Len(trace) =>
                      /\ trace[i + 1].ev = "request"
                      /\ trace[i + 1].method = m
                      /\ trace[i + 1].at = trace[i].at + SleepTicks(trace[i].sec)
       /\ \A i \in Events("request", m) :
            RequestsBefore(m, i) > 0 => i - 1 \in SleepsOf(m)

\* a turn of a loop that is answered by a block: retried after the sleep of
\* its rank on the first RETRY_COUNT attempts, raised on the next
C14_BlockStep ==
  /\ \A r \in BlockedGet :
       GetStep(r) =>
         IF attempt < RETRY_COUNT
         THEN /\ pc' = "get"
              /\ attempt' = attempt + 1
              /\ trace' = trace \o <<EvRequest("GET", NoBody, now),
                                      EvSleep(RETRY_BACKOFF_SEC[attempt + 1], now)>>
         ELSE /\ pc' = "got"
              /\ get_ret' = Raised("HTTPError")
              /\ trace' = Append(trace, EvRequest("GET", NoBody, now))
              /\ RequestsBefore("GET", Len(trace) + 1) = RETRY_COUNT
  /\ \A r \in BlockedPatch :
       PatchStep(r) =>
         IF attempt < RETRY_COUNT
         THEN /\ pc' = "patch"
              /\ attempt' = attempt + 1
              /\ trace' = trace \o <<EvRequest("PATCH", data, now),
                                      EvSleep(RETRY_BACKOFF_SEC[attempt + 1], now)>>
         ELSE /\ pc' = "patched"
              /\ patch_ret' = Raised("HTTPError")
              /\ trace' = Append(trace, EvRequest("PATCH", data, now))
              /\ RequestsBefore("PATCH", Len(trace) + 1) = RETRY_COUNT

\* C14: a 1010 block on the GET or on the PATCH is retried up to RETRY_COUNT
\* times; the k-th retry comes after a sleep of RETRY_BACKOFF_SEC[k] seconds
\* (2, 6, 20, strictly increasing); a call blocked on every attempt sends
\* exactly RETRY_COUNT + 1 requests, and the block on the last attempt is
\* raised as an HTTPError, not retried.
C14_BlockRetried == []C14_Schedule /\ [][C14_BlockStep]_vars

\* a PATCH call that was retried three times and then raised an HTTPError
C14_Witness ==
  /\ pc = "patched"
  /\ attempt = RETRY_COUNT
  /\ last_exc = None
  /\ patch_ret = Raised("HTTPError")
  /\ PatchRequests = RETRY_COUNT + 1
  /\ { trace[i].sec : i \in SleepsOf("PATCH") } = {2, 6, 20}

\* the answers with a status outside 2xx that are no 1010 block
TerminalGet == { r \in GetResponses : r.k = "http_error" /\ ~r.blocked }
TerminalPatch == { r \in PatchResponses : r.k = "http_error" /\ ~r.blocked }

\* a turn of a loop answered by such a status: the helper raises at once,
\* without a sleep and without another request
C15_TerminalStep ==
  /\ \A r \in TerminalGet :
       GetStep(r) =>
         /\ pc' = "got"
         /\ get_ret' = Raised("HTTPError")
         /\ trace' = Append(trace, EvRequest("GET", NoBody, now))
         /\ now' = now
         /\ attempt' = attempt
  /\ \A r \in TerminalPatch :
       PatchStep(r) =>
         /\ pc' = "patched"
         /\ patch_ret' = Raised("HTTPError")
         /\ trace' = Append(trace, EvRequest("PATCH", data, now))
         /\ now' = now
         /\ attempt' = attempt

\* once a helper has raised an HTTPError, the request it was raised for is
\* the last event of the run
C15_NothingAfter ==
  /\ get_ret = Raised("HTTPError") =>
       /\ pc \in {"got", "exit"}
       /\ trace[Len(trace)] = EvRequest("GET", NoBody, now)
       /\ PatchCalls = 0
       /\ PatchRequests = 0
  /\ patch_ret = Raised("HTTPError") =>
       /\ pc \in {"patched", "exit"}
       /\ trace[Len(trace)] = EvRequest("PATCH", data, now)

\* C15: a response with a status outside 2xx that is not the 1010 block is
\* terminal: the helper raises after that one response, with no sleep and
\* no resend, and the run sends no further request of any kind.
C15_TerminalStatus == []C15_NothingAfter /\ [][C15_TerminalStep]_vars

\* a run whose only request was a GET answered by such a status
C15_Witness ==
  /\ pc = "exit"
  /\ outcome = "GET channel HTTPError"
  /\ Len(trace) = 3
  /\ GetRequests = 1

-----------------------------------------------------------------------------
(* Termination *)

\* the places of a run, counted from its end
Phase ==
  CASE pc = "import" -> 6
    [] pc = "main" -> 5
    [] pc = "get" -> 4
    [] pc = "got" -> 3
    [] pc = "patch" -> 2
    [] pc = "patched" -> 1
    [] OTHER -> 0

\* a bound on the steps the run has left: the place, then the attempts the
\* loop at that place has left
Rank == Phase * (RETRY_COUNT + 2) + (RETRY_COUNT + 1 - attempt)

\* a step taken while a run is under way is a step of somebody else, who
\* leaves the run where it is, or brings the run nearer to its end
C16_RankDecreases ==
  pc # "exit" => \/ Rank' < Rank
                 \/ UNCHANGED <<pc, attempt, trace, now>>

\* a run under way can always take its next step, and its rank is a natural
C16_Progress ==
  /\ Rank >= 0
  /\ pc # "exit" => ENABLED RunStep

\* C16: every run terminates: whatever the remote answers, a run that has
\* begun reaches its end, and the number of steps it takes to get there,
\* retries included, is bounded.
C16_Terminates ==
  /\ []C16_Progress
  /\ [][C16_RankDecreases]_vars
  /\ (pc # "exit") ~> (pc = "exit")

\* a run that retried the GET and the PATCH as often as it may has ended
C16_Witness ==
  /\ pc = "exit"
  /\ GetRequests = RETRY_COUNT + 1
  /\ PatchRequests = RETRY_COUNT + 1

-----------------------------------------------------------------------------
(* The embedded anchor *)

\* C17: with the anchor of the embedded URL (daysperyear = 7, lastdatechange
\* = 1757721600000, lastdateepoch = -4449513600000) month_ms is 50,400,000,
\* and at now = lastdatechange the translator gives elapsed_ms = 0,
\* total_months = 0, ms_into_month = 0, current_month = 1 and the calendar
\* year of lastdateepoch, 1829, as current_year.
C17_EmbeddedAnchor ==
  (Computed /\ cfg = COMPUPRO_QS /\ now = anchor_real_ms(cfg) * SubMs) =>
     /\ info.month_ms = 50400000
     /\ elapsed_ms(cfg, now) = 0
     /\ total_months(cfg, now) = 0
     /\ info.ms_into_month = 0
     /\ info.current_month = 1
     /\ info.current_year = YearOfDays(cfg.lastdateepoch.days)
     /\ info.current_year = 1829
     /\ new_name = ICON \o " January 1829"

\* the translator has been applied to the embedded URL at its lastdatechange
C17_Witness ==
  /\ Computed
  /\ via = "input"
  /\ cfg = COMPUPRO_QS
  /\ now = 0
  /\ info.anchor_rp_epoch_ms = [days |-> -51499, ms |-> 0]

-----------------------------------------------------------------------------
(* One counter for both causes of a retry *)

UrlErrorGet == { r \in GetResponses : r.k = "url_error" }
UrlErrorPatch == { r \in PatchResponses : r.k = "url_error" }

\* a turn of a loop that ends in a URLError: retried like a block, after the
\* sleep of the same rank, from the same counter; raised on the last attempt
C18_UrlErrorStep ==
  /\ \A r \in UrlErrorGet :
       GetStep(r) =>
         /\ last_exc' = "URLError"
         /\ IF attempt < RETRY_COUNT
            THEN /\ pc' = "get"
                 /\ attempt' = attempt + 1
                 /\ trace' = trace \o <<EvRequest("GET", NoBody, now),
                                         EvSleep(RETRY_BACKOFF_SEC[attempt + 1], now)>>
            ELSE /\ pc' = "got"
                 /\ get_ret' = Raised("URLError")
                 /\ trace' = Append(trace, EvRequest("GET", NoBody, now))
  /\ \A r \in UrlErrorPatch :
       PatchStep(r) =>
         /\ last_exc' = "URLError"
         /\ IF attempt < RETRY_COUNT
            THEN /\ pc' = "patch"
                 /\ attempt' = attempt + 1
                 /\ trace' = trace \o <<EvRequest("PATCH", data, now),
                                         EvSleep(RETRY_BACKOFF_SEC[attempt + 1], now)>>
            ELSE /\ pc' = "patched"
                 /\ patch_ret' = Raised("URLError")
                 /\ trace' = Append(trace, EvRequest("PATCH", data, now))

\* the counter stands for the requests of the call, whatever made it retry,
\* and never passes RETRY_COUNT: the test of the while loop never fails
C18_Bound ==
  /\ attempt \in 0 .. RETRY_COUNT
  /\ pc = "get" => GetRequests = attempt
  /\ pc = "got" => GetRequests = attempt + 1
  /\ pc = "patch" => PatchRequests = attempt
  /\ pc = "patched" => PatchRequests = attempt + 1
  /\ GetRequests <= RETRY_COUNT + 1
  /\ PatchRequests <= RETRY_COUNT + 1
  /\ \A m \in Methods : Cardinality(SleepsOf(m)) <= RETRY_COUNT
  /\ get_ret.exc # "RuntimeError"
  /\ patch_ret.exc # "RuntimeError"

\* C18: a URLError is retried from the same attempt counter as a 1010 block:
\* however the two interleave, a call sends at most RETRY_COUNT + 1 requests
\* and sleeps at most RETRY_COUNT times, a run sends at most 4 GET and 4
\* PATCH requests, the loop never ends by its while condition and the
\* RuntimeError after the loop is never raised.
C18_SharedCounter == []C18_Bound /\ [][C18_UrlErrorStep]_vars

\* a GET call that met a URLError, was retried three times in all and ended
\* on an HTTPError
C18_Witness ==
  /\ pc = "got"
  /\ last_exc = "URLError"
  /\ get_ret = Raised("HTTPError")
  /\ GetRequests = RETRY_COUNT + 1
  /\ Cardinality(SleepsOf("GET")) = RETRY_COUNT

-----------------------------------------------------------------------------
(* Convergence *)

\* the month the run under way computed its label in
RunMonth == total_months(cfg, trace[1].at)

\* a PATCH answered 2xx leaves the channel with the label of the run
C19_PatchStep ==
  \A r \in { a \in PatchResponses : a.k = "ok" } :
     PatchStep(r) =>
       /\ remote' = new_name
       /\ hist' = [label |-> new_name, month |-> RunMonth, prior |-> FALSE]

\* as long as nobody else renames the channel, the channel keeps the label
\* of the run that wrote it, and a later run that computes its label in the
\* same month and reads the channel computes that label and writes nothing
C19_Converged ==
  /\ (hist # NoHist /\ ~hist.prior) =>
        /\ hist.label = new_name
        /\ hist.month = RunMonth
        /\ remote = new_name
  /\ (hist # NoHist /\ hist.prior /\ new_name # None
         /\ RunMonth = hist.month /\ GetSucceeded) =>
        /\ new_name = hist.label
        /\ get_ret.json = "object" => get_ret.name = new_name
        /\ PatchCalls = 0
        /\ PatchRequests = 0

\* C19: runs converge and are idempotent: after a run whose PATCH succeeds
\* the remote channel name is the label of that run, and a later run that
\* starts in the same in-universe month, with no external change and a
\* successful read, computes the same label and sends no PATCH request.
C19_Idempotent == []C19_Converged /\ [][C19_PatchStep]_vars

\* a later run in the month of a successful PATCH found the name up to date
C19_Witness ==
  /\ pc = "exit"
  /\ hist # NoHist
  /\ hist.prior
  /\ new_name = hist.label
  /\ RunMonth = hist.month
  /\ outcome = "Channel name already up to date"
  /\ PatchRequests = 0

====
